---- MODULE Spec2Model ----
(***************************************************************************)
(* ForwardTacotron (models/forward_tacotron.py): the length regulator's    *)
(* index-based hard expansion, the two entry points of the model (forward  *)
(* and generate), the evaluation/training flag and the step counter.       *)
(*                                                                         *)
(* Durations are real numbers in the program.  Here a duration tensor is   *)
(* a matrix of integer numerators over one common denominator `den`: the   *)
(* value of an entry v is v/den frames.  Ground-truth durations are given  *)
(* in units of 1/Scale frame; dividing by alpha = an/ad multiplies the     *)
(* numerators by ad and the denominator by an, so the arithmetic is exact. *)
(* Token indices and frame positions are 0-based as in the program; a      *)
(* sequence s of the program is the TLA+ sequence with s[k] at k+1.        *)
(***************************************************************************)
EXTENDS Integers, Sequences, FiniteSets, TLC

\* ------------------------------------------------------------------ bounds
MaxT == 3          \* tokens per sequence of a batch handed to the regulator
MaxB == 2          \* most sequences in a batch
MaxCells == 6      \* most entries of a batch duration tensor
NumChars == 2      \* size of the symbol vocabulary
MaxLen == 2        \* longest token sequence generate is called with
MaxStep == 2       \* training-mode forward calls in one run

\* Resolution of the fixed-point durations: 1/Scale frame.
Scale == 10
\* Ground-truth duration entries handed to the regulator, in 1/Scale frame.
DurVals == {-5, 0, 6, 24, 36}
\* Ground-truth duration entries of the batches forward is called with.
FwdVals == {6, 25}
\* Per-symbol outputs of the duration predictor (before /alpha), in 1/Scale.
WVals == {-10, 0, 25}
\* Speed factors alpha = an/ad > 0, as <<an, ad>>.
Alphas == {<<1, 1>>, <<3, 2>>, <<2, 1>>, <<4, 1>>}

\* ------------------------------------------------------------ program constants
DefaultToken == 0  \* torch.full((1, 1), fill_value=0)
FloorDur == 2      \* torch.fill_(dur, 2)

VARIABLES
    training,    \* nn.Module.training of the ForwardTacotron
    step,        \* the registered buffer 'step'
    durW,        \* weights of dur_pred: symbol -> predicted duration
    last,        \* the call that has returned (or raised) and its tensors
    trainCalls,  \* history: forward calls made while training was set
    genMode      \* history: the mode generate was called in since the last
                 \* train(): "none" (not called), "training" or "eval"

vars == <<training, step, durW, last, trainCalls, genMode>>

\* ------------------------------------------------------------ arithmetic
RECURSIVE SumTo(_, _)
SumTo(row, j) == IF j = 0 THEN 0 ELSE SumTo(row, j - 1) + row[j]

Sum(row) == SumTo(row, Len(row))

RECURSIVE SetMax(_)
SetMax(S) ==
    LET x == CHOOSE y \in S : TRUE
    IN  IF S = {x} THEN x
        ELSE LET m == SetMax(S \ {x}) IN IF x > m THEN x ELSE m

\* alpha1 < alpha2 for alphas an/ad
AlphaLess(a1, a2) == a1[1] * a2[2] < a2[1] * a1[2]

\* ------------------------------------------------------------ LengthRegulator
\* duration[duration < 0] = 0
Clamp(v) == IF v < 0 THEN 0 ELSE v

ClampTensor(duration) ==
    [i \in DOMAIN duration |-> [j \in DOMAIN duration[i] |-> Clamp(duration[i][j])]]

\* duration.cumsum(1)
CumSum(duration) ==
    [i \in DOMAIN duration |-> [j \in DOMAIN duration[i] |-> SumTo(duration[i], j)]]

\* .astype('int') of the value v/den: truncation toward zero
AsIntNearest(v, den) == (2 * v + den) \div (2 * den)

AsInt(v, den) == IF v >= 0 THEN v \div den ELSE -((-v) \div den)

\* tot_duration.max()
TensorMax(tot) == SetMax(UNION {{tot[i][j] : j \in DOMAIN tot[i]} : i \in DOMAIN tot})

\* index[i, a:b, :] = v on one row, a numpy slice assignment with 0 <= a
SliceAssignAfterStart(row, a, b, v) ==
    [f \in DOMAIN row |-> IF a < f - 1 /\ f - 1 < b THEN v ELSE row[f]]

SliceAssign(row, a, b, v) ==
    [f \in DOMAIN row |-> IF a <= f - 1 /\ f - 1 < b THEN v ELSE row[f]]

\* for j in range(tot_duration.shape[1]): pos1 = tot[i, j]; index[i, pos:pos1] = j; pos = pos1
RECURSIVE IndexLoop(_, _, _, _)
IndexLoop(tot, j, pos, row) ==
    IF j >= Len(tot) THEN [row |-> row, pos |-> pos, j |-> j - 1]
    ELSE LET pos1 == tot[j + 1]
         IN  IndexLoop(tot, j + 1, pos1, SliceAssign(row, pos, pos1, j))

\* one iteration of `for i`: the inner loop, then index[i, pos:, :] = j
IndexRowNoTail(tot, zeros) == IndexLoop(tot, 0, 0, zeros).row

IndexRow(tot, zeros) ==
    LET r == IndexLoop(tot, 0, 0, zeros)
    IN  SliceAssign(r.row, r.pos, Len(zeros), r.j)

\* LengthRegulator.build_index(duration, x); duration is clamped in place
BuildIndex(duration, den) ==
    LET clamped == ClampTensor(duration)
        cum     == CumSum(clamped)
        tot     == [i \in DOMAIN cum |-> [j \in DOMAIN cum[i] |-> AsInt(cum[i][j], den)]]
        maxd    == TensorMax(tot)
        index   == [i \in DOMAIN tot |-> IndexRow(tot[i], [f \in 1..maxd |-> 0])]
    IN  [duration |-> clamped, tot_duration |-> tot,
         max_duration |-> maxd, index |-> index]

\* The hidden states of b sequences of t tokens, each feature vector named by
\* its place <<sequence, token>>.
Hidden(b, t) == [i \in 1..b |-> [j \in 1..t |-> <<i - 1, j - 1>>]]

HiddenFor(duration) == Hidden(Len(duration), Len(duration[1]))

\* torch.gather(x, 1, idx): y[i, f, :] = x[i, idx[i, f, :], :]
Gather(x, idx) ==
    [i \in DOMAIN idx |-> [f \in DOMAIN idx[i] |-> x[i][idx[i][f] + 1]]]

\* LengthRegulator.forward -> expand
Expand(x, duration, den) ==
    LET b == BuildIndex(duration, den)
    IN  [duration |-> b.duration, tot_duration |-> b.tot_duration,
         max_duration |-> b.max_duration, index |-> b.index,
         y |-> Gather(x, b.index)]

\* ------------------------------------------------------------ SeriesPredictor
\* SeriesPredictor.forward in evaluation mode (no dropout): a function of the
\* tokens and the weights, here one value per symbol; then `return x / alpha`.
\* The result is the tensor of numerators with its denominator.
SeriesPredictorTimesAlpha(x, alpha, W) ==
    [num |-> [k \in DOMAIN x |-> W[x[k]] * alpha[1]], den |-> Scale * alpha[2]]

SeriesPredictor(x, alpha, W) ==
    [num |-> [k \in DOMAIN x |-> W[x[k]] * alpha[2]], den |-> Scale * alpha[1]]

\* ------------------------------------------------------------ ForwardTacotron
\* if self.training: self.step += 1
StepAlways(isTraining, s) == s + 1

StepAfterForward(isTraining, s) == IF isTraining THEN s + 1 ELSE s

\* x = self.lr(x, dur) in forward
ForwardRegulate(dur, den) == Expand(HiddenFor(dur), dur, den)

\* if x.size(1) == 0: x = torch.full((1, 1), fill_value=0)
EmptyGuard(x) == IF Len(x) = 0 THEN <<DefaultToken>> ELSE x

\* if torch.sum(dur) <= 0: torch.fill_(dur, 2)
SilentFixStrict(num, den) ==
    IF Sum(num) < 0 THEN [k \in DOMAIN num |-> FloorDur * den] ELSE num

SilentFix(num, den) ==
    IF Sum(num) <= 0 THEN [k \in DOMAIN num |-> FloorDur * den] ELSE num

\* x = self.lr(x, dur) in generate: dur is handed over as it is
GenerateRegulateRounded(num, den) ==
    LET lr == Expand(HiddenFor(<<num>>), <<num>>, den)
        cum == CumSum(lr.duration)
        tot == <<[j \in DOMAIN num |-> AsIntNearest(cum[1][j], den)]>>
        maxd == TensorMax(tot)
        index == <<IndexRow(tot[1], [f \in 1..maxd |-> 0])>>
    IN  [duration |-> lr.duration, tot_duration |-> tot, max_duration |-> maxd,
         index |-> index, y |-> Gather(HiddenFor(<<num>>), index)]

GenerateRegulate(num, den) == Expand(HiddenFor(<<num>>), <<num>>, den)

\* `dur` of generate after self.lr(x, dur): build_index wrote its clamp into the
\* tensor it was given, and dur.squeeze(2), dur.squeeze() and .data.numpy() are
\* views of that tensor
DurBeforeRegulate(num, lr) == num

DurAfterRegulate(num, lr) == lr.duration[1]

NoCall ==
    [op |-> "none", x |-> <<>>, alpha |-> <<1, 1>>, tokens |-> <<>>, pred |-> <<>>,
     arg |-> <<>>, den |-> Scale, dur |-> <<>>, tot |-> <<>>, index |-> <<>>,
     y |-> <<>>, frames |-> 0, raised |-> FALSE, ret |-> <<>>]

\* ForwardTacotron.forward, as far as the regulator: the batch's 'dur' is clamped
\* in place and expanded
ForwardCall(dur) ==
    LET lr == ForwardRegulate(dur, Scale)
    IN  [NoCall EXCEPT !.op = "forward", !.arg = dur, !.dur = lr.duration,
                       !.tot = lr.tot_duration, !.index = lr.index,
                       !.y = lr.y, !.frames = lr.max_duration]

\* LengthRegulator.forward called on its own
RegulatorCall(dur) ==
    LET lr == Expand(HiddenFor(dur), dur, Scale)
    IN  [NoCall EXCEPT !.op = "expand", !.arg = dur, !.dur = lr.duration,
                       !.tot = lr.tot_duration, !.index = lr.index,
                       !.y = lr.y, !.frames = lr.max_duration]

\* ForwardTacotron.generate.  The expanded tensor has max_duration frames, and the
\* LSTM, the projection and the postnet keep that length; an expansion with no
\* frame cannot be synthesised ("breaking synth"), and the call raises.
GenerateCall(x, alpha, W) ==
    LET tokens == EmptyGuard(x)
        pred   == SeriesPredictor(tokens, alpha, W)
        dur    == SilentFix(pred.num, pred.den)
        lr     == GenerateRegulate(dur, pred.den)
        after  == DurAfterRegulate(dur, lr)
        raised == lr.max_duration = 0
    IN  [op |-> "generate", x |-> x, alpha |-> alpha, tokens |-> tokens,
         pred |-> pred.num, arg |-> <<dur>>, den |-> pred.den,
         dur |-> <<after>>, tot |-> lr.tot_duration, index |-> lr.index,
         y |-> lr.y, frames |-> lr.max_duration, raised |-> raised,
         ret |-> IF raised THEN <<>> ELSE after]

\* self.eval() at the head of generate; nothing in generate sets the mode back
ModeRestored(isTraining) == isTraining

ModeAfterGenerate(isTraining) == FALSE

\* ForwardTacotron.get_step
get_step == step

\* ------------------------------------------------------------ inputs
Symbols == 0..(NumChars - 1)

Shapes == {s \in (1..MaxB) \X (1..MaxT) : s[1] * s[2] <= MaxCells}

Batches(s, vals) == [1..s[1] -> [1..s[2] -> vals]]

TokenLens == 0..MaxLen

Tokens(n) == [1..n -> Symbols]

\* ------------------------------------------------------------ state machine
\* No call is in progress and the last result has been released.
Idle == last.op = "none"

\* After construction and load_state_dict: a module is built in training mode,
\* 'step' is registered as zeros(1).
Init ==
    /\ training = TRUE
    /\ step = 0
    /\ durW \in [Symbols -> WVals]
    /\ last = NoCall
    /\ trainCalls = 0
    /\ genMode = "none"

\* model.train()
Train ==
    /\ Idle
    /\ training' = TRUE
    /\ genMode' = "none"
    /\ UNCHANGED <<step, durW, last, trainCalls>>

\* model.eval()
Eval ==
    /\ Idle
    /\ training' = FALSE
    /\ UNCHANGED <<step, durW, last, trainCalls, genMode>>

Forward(dur) ==
    /\ Idle
    /\ training => trainCalls < MaxStep
    /\ step' = StepAfterForward(training, step)
    /\ trainCalls' = trainCalls + (IF training THEN 1 ELSE 0)
    /\ last' = ForwardCall(dur)
    /\ UNCHANGED <<training, durW, genMode>>

Generate(x, alpha) ==
    /\ Idle
    /\ training' = ModeAfterGenerate(training)
    /\ genMode' = IF training THEN "training"
                  ELSE IF genMode = "none" THEN "eval" ELSE genMode
    /\ last' = GenerateCall(x, alpha, durW)
    /\ UNCHANGED <<step, durW, trainCalls>>

\* The caller is done with what the call returned.
Release ==
    /\ last.op # "none"
    /\ last' = NoCall
    /\ UNCHANGED <<training, step, durW, trainCalls, genMode>>

ForwardStep ==
    Idle /\ \E s \in Shapes : \E dur \in Batches(s, FwdVals) : Forward(dur)

GenerateStep ==
    Idle /\ \E n \in TokenLens : \E x \in Tokens(n), alpha \in Alphas : Generate(x, alpha)

Next ==
    \/ Train
    \/ Eval
    \/ ForwardStep
    \/ GenerateStep
    \/ Release

Spec == Init /\ [][Next]_vars

\* The regulator alone, on batches of ground-truth durations.
Regulate(dur) ==
    /\ Idle
    /\ last' = RegulatorCall(dur)
    /\ UNCHANGED <<training, step, durW, trainCalls, genMode>>

InitLR == Init /\ durW = [c \in Symbols |-> 0]

RegulateStep ==
    Idle /\ \E s \in Shapes : \E dur \in Batches(s, DurVals) : Regulate(dur)

NextLR ==
    \/ RegulateStep
    \/ Release

SpecLR == InitLR /\ [][NextLR]_vars

\* ------------------------------------------------------------ properties
\* What the properties below are stated with, written from the arithmetic
\* of the statement and not from the regulator's code.

\* The sum of the first k entries of row, negative entries counted as 0.
RECURSIVE NonNegSum(_, _)
NonNegSum(row, k) ==
    IF k = 0 THEN 0
    ELSE NonNegSum(row, k - 1) + (IF row[k] > 0 THEN row[k] ELSE 0)

\* cum[j] of the statement for token j (0-based), cum[-1] = 0: the inclusive
\* prefix sum of the clamped durations, truncated to an integer.
Cum(row, den, j) == IF j < 0 THEN 0 ELSE NonNegSum(row, j + 1) \div den

\* The same boundary with 0.5 added before the truncation.
CumNearest(row, den, j) == (2 * NonNegSum(row, j + 1) + den) \div (2 * den)

\* A cumulative duration of the row has a fractional part >= 0.5.
HasHalfFraction(row, den) ==
    \E j \in 1..Len(row) : 2 * (NonNegSum(row, j) % den) >= den

\* The total (truncated cumulative) duration of a row.
Total(row, den) == Cum(row, den, Len(row) - 1)

\* Frames of an index row mapped to token j: all of them, and those below `upto`.
FramesOf(idx, j) == Cardinality({f \in DOMAIN idx : idx[f] = j})

OwnFramesOf(idx, j, upto) == Cardinality({f \in DOMAIN idx : f - 1 < upto /\ idx[f] = j})

\* round(v/den), for v >= 0
Round(v, den) == (2 * v + den) \div (2 * den)

AllNonNeg(row) == \A k \in DOMAIN row : row[k] >= 0

ExampleDur == <<<<24, 0, 36>>>>

ExampleIndex == <<<<0, 0, 2, 2, 2, 2>>>>

\* C1: hard index expansion. For every sequence i of the batch, with cum the
\* truncated inclusive prefix sum of the clamped durations and cum[-1] = 0, every
\* frame f < cum[last] is mapped to the one token j with cum[j-1] <= f < cum[j],
\* and every index written is a token index 0..T-1; durations [2.4, 0.0, 3.6]
\* give the mapping [0,0,2,2,2,2].
C1_HardIndexExpansion ==
    last.op = "expand" =>
      /\ \A i \in DOMAIN last.arg :
           LET d == last.arg[i]
               T == Len(d)
               idx == last.index[i]
           IN  /\ Len(idx) >= Total(d, Scale)
               /\ \A f \in 0..(Total(d, Scale) - 1) : \A j \in 0..(T - 1) :
                    (idx[f + 1] = j) <=>
                        (Cum(d, Scale, j - 1) <= f /\ f < Cum(d, Scale, j))
               /\ \A f \in DOMAIN idx : idx[f] \in 0..(T - 1)
      /\ (last.arg = ExampleDur => last.index = ExampleIndex)

C1_Witness ==
    /\ last.op = "expand"
    /\ last.arg = ExampleDur
    /\ last.index = ExampleIndex
    /\ last.frames = 6

\* C2 as stated: for a duration vector with all entries >= 0 and sum > 0, the
\* number of frames mapped to token j equals round(d_j), and no token with
\* d_j > 0 has zero frames.
C2_FramesEqualRounded ==
    (last.op = "expand" /\ Len(last.arg) = 1 /\ AllNonNeg(last.arg[1])
        /\ Sum(last.arg[1]) > 0) =>
      \A j \in 0..(Len(last.arg[1]) - 1) :
        /\ FramesOf(last.index[1], j) = Round(last.arg[1][j + 1], Scale)
        /\ last.arg[1][j + 1] > 0 => FramesOf(last.index[1], j) >= 1

\* C2, amended: the number of frames below the sequence's own total that are
\* mapped to token j is cum[j] - cum[j-1] (truncated cumulative durations); it is
\* floor(d_j) or floor(d_j) + 1 for the clamped d_j, so a token with d_j >= 1 has
\* at least one frame; a single sequence has no other frames.
C2_FramesPerToken ==
    last.op = "expand" =>
      \A i \in DOMAIN last.arg :
        LET d == last.arg[i]
            idx == last.index[i]
        IN  /\ \A j \in 0..(Len(d) - 1) :
                 LET n == OwnFramesOf(idx, j, Total(d, Scale))
                     c == IF d[j + 1] > 0 THEN d[j + 1] ELSE 0
                 IN  /\ n = Cum(d, Scale, j) - Cum(d, Scale, j - 1)
                     /\ c \div Scale <= n
                     /\ n <= (c \div Scale) + 1
                     /\ c >= Scale => n >= 1
            /\ Len(last.arg) = 1 => Len(idx) = Total(d, Scale)

\* A token with 0 < d_j < 1 that has no frame, in a sequence that has frames.
C2_Witness ==
    /\ last.op = "expand"
    /\ last.arg = <<<<6, 6>>>>
    /\ last.index = <<<<1>>>>

\* C3: the expansion generate performs has at least one output frame.
C3_NeverZeroLength ==
    last.op = "generate" => (last.frames >= 1 /\ Len(last.index[1]) >= 1)

\* C4: whenever the sum of the predicted durations (after division by alpha) is
\* <= 0, every per-token duration is replaced by 2 before the regulator is
\* called, no error is raised, and every token has 2 frames (2*T in total).
C4_DegenerateFloor ==
    (last.op = "generate" /\ Sum(last.pred) <= 0) =>
      LET T == Len(last.tokens)
      IN  /\ last.arg = <<[k \in 1..T |-> FloorDur * last.den]>>
          /\ ~last.raised
          /\ last.frames = FloorDur * T
          /\ Len(last.y[1]) = FloorDur * T
          /\ \A j \in 0..(T - 1) : FramesOf(last.index[1], j) = FloorDur

\* An all-zero prediction for two tokens or more.
C4_Witness ==
    /\ last.op = "generate"
    /\ Len(last.tokens) >= 2
    /\ \A k \in DOMAIN last.pred : last.pred[k] = 0
    /\ last.frames = FloorDur * Len(last.tokens)

\* C5 as stated: generate adds 0.5 to the cumulative duration before truncating,
\* so each of its boundaries is the nearest integer, and its boundaries differ
\* from those of the training path for the same durations whenever a cumulative
\* value has a fractional part >= 0.5.
C5_InferenceRounds ==
    last.op = "generate" =>
      /\ \A j \in 0..(Len(last.tokens) - 1) :
           last.tot[1][j + 1] = CumNearest(last.arg[1], last.den, j)
      /\ HasHalfFraction(last.arg[1], last.den) =>
           last.tot # ForwardRegulate(last.arg, last.den).tot_duration

\* C5, amended: neither path adds an offset. In generate and in forward each
\* boundary is the truncated cumulative duration, and generate's boundaries and
\* index are those the training path gives for the same duration vector.
C5_BothPathsTruncate ==
    /\ last.op \in {"generate", "forward"} =>
         \A i \in DOMAIN last.arg : \A j \in 0..(Len(last.arg[i]) - 1) :
           last.tot[i][j + 1] = Cum(last.arg[i], last.den, j)
    /\ last.op = "generate" =>
         /\ last.tot = ForwardRegulate(last.arg, last.den).tot_duration
         /\ last.index = ForwardRegulate(last.arg, last.den).index

\* generate on durations with a cumulative fraction >= 0.5, truncated.
C5_Witness ==
    /\ last.op = "generate"
    /\ ~last.raised
    /\ HasHalfFraction(last.arg[1], last.den)
    /\ \E j \in 0..(Len(last.tokens) - 1) :
         /\ last.tot[1][j + 1] = Cum(last.arg[1], last.den, j)
         /\ last.tot[1][j + 1] # CumNearest(last.arg[1], last.den, j)

\* The greatest total duration of the batch.
BatchMax(arg, den) == SetMax({Total(arg[i], den) : i \in DOMAIN arg})

\* C6: the output length is the maximum over the batch of the sequences' total
\* durations, and a sequence with a smaller total is right-padded, from its total
\* up to the batch maximum, with its own last token index: the padded frames hold
\* the sequence's own last hidden state.
C6_PaddingPolicy ==
    last.op = "expand" =>
      \A i \in DOMAIN last.arg :
        LET d == last.arg[i]
            T == Len(d)
        IN  /\ Len(last.index[i]) = BatchMax(last.arg, Scale)
            /\ Len(last.y[i]) = BatchMax(last.arg, Scale)
            /\ \A f \in Total(d, Scale)..(BatchMax(last.arg, Scale) - 1) :
                 /\ last.index[i][f + 1] = T - 1
                 /\ last.y[i][f + 1] = <<i - 1, T - 1>>

\* A batch of two sequences of two tokens or more, one of them padded.
C6_Witness ==
    /\ last.op = "expand"
    /\ Len(last.arg) = 2
    /\ Len(last.arg[1]) >= 2
    /\ Total(last.arg[1], Scale) >= 1
    /\ Total(last.arg[1], Scale) < Total(last.arg[2], Scale)
    /\ last.index[1][Len(last.index[1])] = Len(last.arg[1]) - 1

\* C7: get_step equals the number of forward calls made in training mode: from
\* 0 each of them adds exactly 1, generate and evaluation-mode forward calls
\* leave it unchanged, and it never decreases.
C7_StepCounter == get_step = trainCalls

\* Two training-mode forward calls, then an evaluation-mode forward call.
C7_Witness ==
    /\ get_step = MaxStep
    /\ ~training
    /\ last.op = "forward"

\* C8: generate on a zero-length token sequence substitutes the single token 0,
\* raises no error, and behaves exactly as generate on [0]; a sequence of
\* length >= 1 is passed through unchanged.
C8_EmptyInputGuard ==
    /\ (last.op = "generate" /\ Len(last.x) = 0) =>
         /\ last.tokens = <<DefaultToken>>
         /\ ~last.raised
         /\ last = [GenerateCall(<<DefaultToken>>, last.alpha, durW) EXCEPT !.x = <<>>]
    /\ (last.op = "generate" /\ Len(last.x) >= 1) => last.tokens = last.x

\* The substitution alone, without the statement that no error is raised.
C8_Substitution ==
    /\ (last.op = "generate" /\ Len(last.x) = 0) =>
         /\ last.tokens = <<DefaultToken>>
         /\ last = [GenerateCall(<<DefaultToken>>, last.alpha, durW) EXCEPT !.x = <<>>]
    /\ (last.op = "generate" /\ Len(last.x) >= 1) => last.tokens = last.x

\* The floor of generate applied: the predicted durations sum to <= 0.
AtFloor(call) == Sum(call.pred) <= 0

\* C9 as stated: for fixed predicted durations and alpha1 < alpha2, generate with
\* alpha2 gives strictly fewer frames than with alpha1, or as many at the floor
\* (stated for calls that return).
C9_StrictlyDecreasing ==
    (last.op = "generate" /\ ~last.raised) =>
      \A a1 \in Alphas :
        LET c1 == GenerateCall(last.x, a1, durW)
        IN  (AlphaLess(a1, last.alpha) /\ ~c1.raised) =>
              \/ last.frames < c1.frames
              \/ (last.frames = c1.frames /\ AtFloor(last))

\* C9, amended: for fixed predicted durations and alpha1 < alpha2, the expansion
\* of generate with alpha2 never has more frames than with alpha1, and has as
\* many at the floor; away from the floor it may have as many too.
C9_NeverLarger ==
    last.op = "generate" =>
      \A a1 \in Alphas :
        LET c1 == GenerateCall(last.x, a1, durW)
        IN  AlphaLess(a1, last.alpha) =>
              /\ last.frames <= c1.frames
              /\ AtFloor(last) => (AtFloor(c1) /\ last.frames = c1.frames)

\* Two alphas that give the same, positive, number of frames away from the floor.
C9_Witness ==
    /\ last.op = "generate"
    /\ ~AtFloor(last)
    /\ last.frames >= 1
    /\ \E a1 \in Alphas :
         /\ AlphaLess(a1, last.alpha)
         /\ GenerateCall(last.x, a1, durW).frames = last.frames
    /\ \E a1 \in Alphas :
         /\ AlphaLess(a1, last.alpha)
         /\ GenerateCall(last.x, a1, durW).frames > last.frames

\* The prediction of the duration predictor for token k, divided by alpha =
\* an/ad, as a numerator over Scale * an.
Predicted(call, k) == durW[call.tokens[k]] * call.alpha[2]

\* C10: the 'dur' generate returns is the duration vector the regulator used:
\* the prediction divided by alpha, with 2 substituted where the floor applied
\* and every negative entry clamped to 0; so every returned duration is >= 0 and
\* the number of mel frames is the truncated sum of the returned durations.
C10_ReturnedDur ==
    (last.op = "generate" /\ ~last.raised) =>
      LET T == Len(last.tokens)
          floored == SumTo([k \in 1..T |-> Predicted(last, k)], T) <= 0
      IN  /\ last.den = Scale * last.alpha[1]
          /\ Len(last.ret) = T
          /\ \A k \in 1..T :
               /\ last.ret[k] = IF floored THEN FloorDur * last.den
                                ELSE IF Predicted(last, k) < 0 THEN 0
                                ELSE Predicted(last, k)
               /\ last.ret[k] >= 0
          /\ last.ret = last.dur[1]
          /\ last.frames = Sum(last.ret) \div last.den
          /\ Len(last.y[1]) = last.frames

\* A returned vector with a clamped negative prediction, away from the floor.
C10_Witness ==
    /\ last.op = "generate"
    /\ ~last.raised
    /\ ~AtFloor(last)
    /\ \E k \in DOMAIN last.pred : last.pred[k] < 0 /\ last.ret[k] = 0

\* A forward call is made in this step.
ForwardCalled == last.op = "none" /\ last'.op = "forward"

\* C11: generate switches the model to evaluation mode and does not restore the
\* mode it found. Once generate has been called and train() has not been called
\* since, the model is in evaluation mode, and a forward call leaves the step
\* counter unchanged, also when the model was in training mode before generate.
C11_ModePersistence ==
    [][/\ genMode # "none" => ~training
       /\ (genMode # "none" /\ ForwardCalled) => step' = step]_vars

\* A forward call after a generate call that found the model in training mode,
\* with steps counted before it and none counted by it.
C11_Witness ==
    /\ genMode = "training"
    /\ last.op = "forward"
    /\ ~training
    /\ step = trainCalls
    /\ step >= 1

====
